---- MODULE Spec2Model ----
(***************************************************************************)
(* Reservation slot availability and admission control of the Ariala       *)
(* Taberna backend (src/app/routers/public_api.py, admin_api.py).          *)
(*                                                                         *)
(* The store is three tables, each a sequence of rows whose index is the   *)
(* autoincrement primary key.  Clock strings ("HH:MM") are sequences of    *)
(* character codes: a digit d is the code d and ':' is the code 10, which  *)
(* keeps the order of the ASCII codes ('0' < ... < '9' < ':').             *)
(***************************************************************************)
EXTENDS Integers, Sequences, FiniteSets, TLC

VARIABLES schedule_days, service_windows, reservations, resp, inflight

vars == <<schedule_days, service_windows, reservations, resp, inflight>>

store == <<schedule_days, service_windows, reservations>>

-----------------------------------------------------------------------------
(* Bounds of the model *)

\* settings.reservation_slot_capacity: read from the environment, default 10.
\* The model runs with a small configured value.
reservation_slot_capacity == 2

\* rows the reservations table may hold
MaxReservations == 3

\* rows the service_windows table may hold
MaxWindows == 2

\* requests in flight at once in the concurrent specification
NumClients == 3

\* requests fired beyond the capacity in the burst specification
BurstExtra == 5

-----------------------------------------------------------------------------
(* Strings *)

COLON == 10

\* "HH:MM" written with two digits each
Clock(h, m) == <<h \div 10, h % 10, COLON, m \div 10, m % 10>>

\* Python's str < str: by code point, a proper prefix is smaller
RECURSIVE StrLt(_, _)
StrLt(a, b) ==
    IF a = <<>> THEN b # <<>>
    ELSE IF b = <<>> THEN FALSE
    ELSE IF a[1] # b[1] THEN a[1] < b[1]
    ELSE StrLt(Tail(a), Tail(b))

StrLe(a, b) == a = b \/ StrLt(a, b)

RECURSIVE DigitsValue(_)
DigitsValue(s) ==
    IF s = <<>> THEN 0 ELSE 10 * DigitsValue(SubSeq(s, 1, Len(s) - 1)) + s[Len(s)]

\* datetime.strptime(s, "%H:%M") as minutes after midnight
strptime(s) ==
    LET p == CHOOSE i \in 1..Len(s) : s[i] = COLON
    IN  60 * DigitsValue(SubSeq(s, 1, p - 1)) + DigitsValue(SubSeq(s, p + 1, Len(s)))

\* datetime.strftime("%H:%M") of a moment given in minutes after midnight of day 0
strftime(minutes) == Clock((minutes \div 60) % 24, minutes % 60)

\* sorted(set(...)) of strings
RECURSIVE SortedStrings(_)
SortedStrings(S) ==
    IF S = {} THEN <<>>
    ELSE LET least == CHOOSE x \in S : \A y \in S : StrLe(x, y)
         IN  <<least>> \o SortedStrings(S \ {least})

Range(s) == {s[i] : i \in DOMAIN s}

-----------------------------------------------------------------------------
(* Values the requests are drawn from *)

Date1 == "2025-06-01"
Date2 == "2025-06-02"
Dates == {Date1, Date2}

PENDING == "PENDING"
CONFIRMED == "CONFIRMED"
CANCELLED == "CANCELLED"
REJECTED == "REJECTED"
ReservationStatus == {PENDING, CONFIRMED, CANCELLED, REJECTED}

None == "None"
Notes == {None}

\* (start, end) pairs an administrator posts to /schedule/window, for the dates
\* WindowDates
WindowSpans == { <<Clock(19, 0), Clock(20, 0)>> }

WindowDates == {Date1}

\* times a client posts to /reservations
RequestTimes == { Clock(19, 0), Clock(19, 30), Clock(20, 0) }

PartySizes == {2}

\* bodies a client posts to /reservations
Payloads == [date : {Date1}, time : RequestTimes, partySize : PartySizes]
                \cup [date : {Date2}, time : {Clock(19, 0)}, partySize : PartySizes]

-----------------------------------------------------------------------------
(* Queries over the store *)

\* select(ScheduleDay).where(ScheduleDay.date == date) ... scalar_one_or_none():
\* the id of the day, 0 for None (ScheduleDay.date is unique)
FindDay(date) ==
    IF \E i \in DOMAIN schedule_days : schedule_days[i].date = date
    THEN CHOOSE i \in DOMAIN schedule_days : schedule_days[i].date = date
    ELSE 0

\* day.windows: the relationship ServiceWindow.day_id -> ScheduleDay.id
DayWindows(day_id) == SelectSeq(service_windows, LAMBDA w : w.day_id = day_id)

\* "if not day or not day.open" of get_availability
NoSlotsForDay_ignores_open(day_id) == day_id = 0

NoSlotsForDay(day_id) == day_id = 0 \/ ~schedule_days[day_id].open

\* "if not day or not day.open" of create_reservation
DateUnavailable(day_id) == day_id = 0 \/ ~schedule_days[day_id].open

\* the loop of _generate_slots over one window, from the moment current on
RECURSIVE WindowSlots_through_end(_, _, _)
WindowSlots_through_end(current, end_dt, step) ==
    IF current <= end_dt
    THEN <<strftime(current)>> \o WindowSlots_through_end(current + step, end_dt, step)
    ELSE <<>>

RECURSIVE WindowSlots_start_always(_, _, _)
WindowSlots_start_always(current, end_dt, step) ==
    <<strftime(current)>> \o
        (IF current + step < end_dt THEN WindowSlots_start_always(current + step, end_dt, step) ELSE <<>>)

RECURSIVE WindowSlots(_, _, _)
WindowSlots(current, end_dt, step) ==
    IF current < end_dt
    THEN <<strftime(current)>> \o WindowSlots(current + step, end_dt, step)
    ELSE <<>>

\* default of the parameter step_minutes of _generate_slots
step_minutes == 30

RECURSIVE AllWindowSlots(_, _)
AllWindowSlots(windows, step) ==
    IF windows = <<>> THEN <<>>
    ELSE WindowSlots(strptime(Head(windows).start), strptime(Head(windows).end), step)
         \o AllWindowSlots(Tail(windows), step)

\* "return sorted(set(slots))"
_generate_slots_as_appended(windows, step) == AllWindowSlots(windows, step)

_generate_slots(windows, step) == SortedStrings(Range(AllWindowSlots(windows, step)))

\* Reservation.status.in_([PENDING, CONFIRMED]) of the grouped count of get_availability
CountedInAvailability(status) == status \in {PENDING, CONFIRMED}

\* the grouped count of get_availability as a dict: time -> number of rows
res_counts(date) ==
    LET rows == {i \in DOMAIN reservations :
                    /\ reservations[i].date = date
                    /\ CountedInAvailability(reservations[i].status)}
        times == {reservations[i].time : i \in rows}
    IN  [t \in times |-> Cardinality({i \in rows : reservations[i].time = t})]

\* "available = count < capacity"
SlotAvailable_inclusive(count) == count <= reservation_slot_capacity

SlotAvailable(count) == count < reservation_slot_capacity

\* "count = res_counts.get(t, 0)" and the entry of the slot
AvailabilitySlot_count_ignored(counts, t) ==
    [time |-> t, available |-> SlotAvailable(0), reason |-> IF SlotAvailable(0) THEN None ELSE "FULL"]

AvailabilitySlot(counts, t) ==
    LET count == IF t \in DOMAIN counts THEN counts[t] ELSE 0
        available == SlotAvailable(count)
    IN  [time |-> t, available |-> available, reason |-> IF available THEN None ELSE "FULL"]

\* the slots of the response of get_availability
AvailabilitySlots(date) ==
    LET day_id == FindDay(date) IN
    IF NoSlotsForDay(day_id) THEN <<>>
    ELSE LET slot_times == _generate_slots(DayWindows(day_id), step_minutes)
             counts == res_counts(date)
         IN  [k \in DOMAIN slot_times |-> AvailabilitySlot(counts, slot_times[k])]

\* any(w.start <= payload.time < w.end for w in day.windows)
WithinWindow_closed_end(windows, time) ==
    \E k \in DOMAIN windows : StrLe(windows[k].start, time) /\ StrLe(time, windows[k].end)

WithinWindow_slots_only(windows, time) == time \in Range(_generate_slots(windows, step_minutes))

WithinWindow(windows, time) ==
    \E k \in DOMAIN windows : StrLe(windows[k].start, time) /\ StrLt(time, windows[k].end)

\* Reservation.status.in_([PENDING, CONFIRMED]) of the count of create_reservation
CountedInAdmission_any_status(status) == status \in ReservationStatus

CountedInAdmission(status) == status \in {PENDING, CONFIRMED}

\* select(func.count(Reservation.id)).where(date, time, status in (PENDING, CONFIRMED))
RECURSIVE SeatsOf(_, _, _)
SeatsOf(rows, date, time) ==
    IF rows = <<>> THEN 0
    ELSE (IF /\ Head(rows).date = date
             /\ Head(rows).time = time
             /\ Head(rows).status \in {PENDING, CONFIRMED}
          THEN Head(rows).party_size ELSE 0) + SeatsOf(Tail(rows), date, time)

AdmissionCount_seats(date, time) == SeatsOf(reservations, date, time)

AdmissionCount(date, time) ==
    Cardinality({i \in DOMAIN reservations :
                    /\ reservations[i].date = date
                    /\ reservations[i].time = time
                    /\ CountedInAdmission(reservations[i].status)})

\* "if int(count) >= settings.reservation_slot_capacity"
SlotFull_strict(count) == count > reservation_slot_capacity

SlotFull(count) == count >= reservation_slot_capacity

\* the checks of create_reservation in the order of the code; "admit" when all pass
Admission_capacity_first(payload) ==
    LET day_id == FindDay(payload.date) IN
    IF DateUnavailable(day_id) THEN "Date is not available"
    ELSE IF SlotFull(AdmissionCount(payload.date, payload.time)) THEN "Slot is full"
    ELSE IF ~WithinWindow(DayWindows(day_id), payload.time) THEN "Time is not within service hours"
    ELSE "admit"

Admission(payload) ==
    LET day_id == FindDay(payload.date) IN
    IF DateUnavailable(day_id) THEN "Date is not available"
    ELSE IF ~WithinWindow(DayWindows(day_id), payload.time) THEN "Time is not within service hours"
    ELSE IF SlotFull(AdmissionCount(payload.date, payload.time)) THEN "Slot is full"
    ELSE "admit"

\* HTTP status of a rejected create_reservation
AdmissionStatus(detail) == IF detail = "Slot is full" THEN 409 ELSE 400

\* Reservation(..., status=ReservationStatus.PENDING)
NewReservation_confirmed(payload) ==
    [date |-> payload.date, time |-> payload.time, party_size |-> payload.partySize,
     status |-> CONFIRMED]

NewReservation_rejected(payload) ==
    [date |-> payload.date, time |-> payload.time, party_size |-> payload.partySize,
     status |-> REJECTED]

NewReservation(payload) ==
    [date |-> payload.date, time |-> payload.time, party_size |-> payload.partySize,
     status |-> PENDING]

\* reservation_public_id: "resv_" followed by the decimal digits of the id
RECURSIVE Digits(_)
Digits(n) == IF n < 10 THEN <<n>> ELSE Digits(n \div 10) \o <<n % 10>>

reservation_public_id(db_id) == [prefix |-> "resv_", suffix |-> Digits(db_id)]

ReservationOut(db_id, r) ==
    [id |-> reservation_public_id(db_id), status |-> r.status, date |-> r.date,
     time |-> r.time, partySize |-> r.party_size]

-----------------------------------------------------------------------------
(* Identifiers of the requests *)

\* a character that is no digit
LETTER == 11

\* the ids the program hands out
IssuedIds == {reservation_public_id(i) : i \in 1..MaxReservations}

\* the ids a client puts in /reservations/{reservation_id}: those the program
\* hands out, one of another kind and one whose suffix is no number
ReservationIds ==
    IssuedIds \cup {[prefix |-> "food_", suffix |-> <<1>>], [prefix |-> "resv_", suffix |-> <<LETTER>>]}

\* reservation_id.startswith("resv_")
StartsWithResv(reservation_id) == reservation_id.prefix = "resv_"

\* int(...) raises ValueError unless the text is a decimal number
IsDecimal(s) == s # <<>> /\ \A k \in DOMAIN s : s[k] \in 0..9

\* select(Reservation).where(Reservation.id == db_id) ... scalar_one_or_none()
FindReservation(db_id) == IF db_id \in DOMAIN reservations THEN db_id ELSE 0

\* "if r.status in [CANCELLED, REJECTED]"
CannotBeCancelled_only_cancelled(status) == status = CANCELLED

CannotBeCancelled(status) == status \in {CANCELLED, REJECTED}

-----------------------------------------------------------------------------
(* Responses *)

Response(op, args, code, detail, body) ==
    [op |-> op, args |-> args, code |-> code, detail |-> detail, body |-> body]

NoResponse == Response("none", <<>>, 0, "", <<>>)

-----------------------------------------------------------------------------
(* The handlers, each run from its first line to its return *)

\* GET /availability
get_availability(date, partySize) ==
    /\ resp' = Response("get_availability", [date |-> date, partySize |-> partySize],
                        200, "", AvailabilitySlots(date))
    /\ UNCHANGED <<store, inflight>>

\* POST /reservations
create_reservation(payload) ==
    LET outcome == Admission(payload) IN
    /\ IF outcome = "admit"
       THEN /\ Len(reservations) < MaxReservations
            /\ reservations' = Append(reservations, NewReservation(payload))
            /\ resp' = Response("create_reservation", payload, 201, "",
                                <<ReservationOut(Len(reservations'), reservations'[Len(reservations')])>>)
       ELSE /\ resp' = Response("create_reservation", payload, AdmissionStatus(outcome), outcome, <<>>)
            /\ UNCHANGED reservations
    /\ UNCHANGED <<schedule_days, service_windows, inflight>>

\* GET /reservations/{reservation_id}
get_reservation(reservation_id) ==
    /\ resp' =
         IF ~StartsWithResv(reservation_id)
         THEN Response("get_reservation", reservation_id, 404, "Not found", <<>>)
         ELSE IF ~IsDecimal(reservation_id.suffix)
         THEN Response("get_reservation", reservation_id, 500, "ValueError", <<>>)
         ELSE LET db_id == FindReservation(DigitsValue(reservation_id.suffix)) IN
              IF db_id = 0
              THEN Response("get_reservation", reservation_id, 404, "Not found", <<>>)
              ELSE Response("get_reservation", reservation_id, 200, "",
                            <<ReservationOut(db_id, reservations[db_id])>>)
    /\ UNCHANGED <<store, inflight>>

\* POST /reservations/{reservation_id}/cancel
cancel_reservation_whole_slot(reservation_id) ==
    LET db_id == IF StartsWithResv(reservation_id) /\ IsDecimal(reservation_id.suffix)
                 THEN FindReservation(DigitsValue(reservation_id.suffix))
                 ELSE 0
    IN
    /\ db_id # 0
    /\ ~CannotBeCancelled(reservations[db_id].status)
    /\ reservations' =
         [i \in DOMAIN reservations |->
            IF /\ reservations[i].date = reservations[db_id].date
               /\ reservations[i].time = reservations[db_id].time
            THEN [reservations[i] EXCEPT !.status = CANCELLED]
            ELSE reservations[i]]
    /\ resp' = Response("cancel_reservation", reservation_id, 200, "",
                        <<ReservationOut(db_id, reservations'[db_id])>>)
    /\ UNCHANGED <<schedule_days, service_windows, inflight>>

cancel_reservation(reservation_id) ==
    /\ IF ~StartsWithResv(reservation_id)
       THEN /\ resp' = Response("cancel_reservation", reservation_id, 404, "Not found", <<>>)
            /\ UNCHANGED reservations
       ELSE IF ~IsDecimal(reservation_id.suffix)
       THEN /\ resp' = Response("cancel_reservation", reservation_id, 500, "ValueError", <<>>)
            /\ UNCHANGED reservations
       ELSE LET db_id == FindReservation(DigitsValue(reservation_id.suffix)) IN
            IF db_id = 0
            THEN /\ resp' = Response("cancel_reservation", reservation_id, 404, "Not found", <<>>)
                 /\ UNCHANGED reservations
            ELSE IF CannotBeCancelled(reservations[db_id].status)
            THEN /\ resp' = Response("cancel_reservation", reservation_id, 409,
                                     "Reservation cannot be cancelled", <<>>)
                 /\ UNCHANGED reservations
            ELSE /\ reservations' = [reservations EXCEPT ![db_id].status = CANCELLED]
                 /\ resp' = Response("cancel_reservation", reservation_id, 200, "",
                                     <<ReservationOut(db_id, reservations'[db_id])>>)
    /\ UNCHANGED <<schedule_days, service_windows, inflight>>

\* POST /schedule/day
upsert_schedule_day_cancels_bookings(date, open, note) ==
    LET day_id == FindDay(date) IN
    /\ schedule_days' =
         IF day_id = 0
         THEN Append(schedule_days, [date |-> date, open |-> open, note |-> note])
         ELSE [schedule_days EXCEPT ![day_id].open = open, ![day_id].note = note]
    /\ reservations' =
         [i \in DOMAIN reservations |->
            IF ~open /\ reservations[i].date = date
            THEN [reservations[i] EXCEPT !.status = CANCELLED]
            ELSE reservations[i]]
    /\ resp' = Response("upsert_schedule_day", [date |-> date, open |-> open, note |-> note],
                        201, "", <<[date |-> date, open |-> open]>>)
    /\ UNCHANGED <<service_windows, inflight>>

upsert_schedule_day(date, open, note) ==
    LET day_id == FindDay(date) IN
    /\ schedule_days' =
         IF day_id = 0
         THEN Append(schedule_days, [date |-> date, open |-> open, note |-> note])
         ELSE [schedule_days EXCEPT ![day_id].open = open, ![day_id].note = note]
    /\ resp' = Response("upsert_schedule_day", [date |-> date, open |-> open, note |-> note],
                        201, "", <<[date |-> date, open |-> open]>>)
    /\ UNCHANGED <<service_windows, reservations, inflight>>

\* UniqueConstraint("day_id", "start", "end") of service_windows
WindowExists(day_id, start, end) ==
    \E k \in DOMAIN service_windows :
        /\ service_windows[k].day_id = day_id
        /\ service_windows[k].start = start
        /\ service_windows[k].end = end

\* POST /schedule/window
add_service_window_reopens(date, start, end) ==
    LET found == FindDay(date)
        day_id == IF found = 0 THEN Len(schedule_days) + 1 ELSE found
    IN
    /\ Len(service_windows) < MaxWindows
    /\ schedule_days' =
         IF found = 0
         THEN Append(schedule_days, [date |-> date, open |-> TRUE, note |-> None])
         ELSE [schedule_days EXCEPT ![found].open = TRUE]
    /\ IF WindowExists(day_id, start, end)
       THEN /\ resp' = Response("add_service_window", [date |-> date, start |-> start, end |-> end],
                                500, "IntegrityError", <<>>)
            /\ UNCHANGED service_windows
       ELSE /\ service_windows' = Append(service_windows, [day_id |-> day_id, start |-> start, end |-> end])
            /\ resp' = Response("add_service_window", [date |-> date, start |-> start, end |-> end],
                                201, "", <<[id |-> Len(service_windows')]>>)
    /\ UNCHANGED <<reservations, inflight>>

add_service_window(date, start, end) ==
    LET found == FindDay(date)
        day_id == IF found = 0 THEN Len(schedule_days) + 1 ELSE found
    IN
    /\ Len(service_windows) < MaxWindows
    /\ schedule_days' =
         IF found = 0
         THEN Append(schedule_days, [date |-> date, open |-> TRUE, note |-> None])
         ELSE schedule_days
    /\ IF WindowExists(day_id, start, end)
       THEN /\ resp' = Response("add_service_window", [date |-> date, start |-> start, end |-> end],
                                500, "IntegrityError", <<>>)
            /\ UNCHANGED service_windows
       ELSE /\ service_windows' = Append(service_windows, [day_id |-> day_id, start |-> start, end |-> end])
            /\ resp' = Response("add_service_window", [date |-> date, start |-> start, end |-> end],
                                201, "", <<[id |-> Len(service_windows')]>>)
    /\ UNCHANGED <<reservations, inflight>>

-----------------------------------------------------------------------------
(* The specification of requests that do not overlap *)

\* rows written before the run: bookings the operations surface has confirmed
\* or rejected (no handler of the program writes these two statuses)
SeedRows == [date : Dates, time : {Clock(19, 0)}, party_size : PartySizes,
             status : {CONFIRMED, REJECTED}]

Init ==
    /\ schedule_days = <<>>
    /\ service_windows = <<>>
    /\ reservations \in {[i \in 1..n |-> row] : n \in 0..reservation_slot_capacity, row \in SeedRows}
    /\ resp = NoResponse
    /\ inflight = <<>>

Next ==
    \/ \E date \in Dates, partySize \in PartySizes : get_availability(date, partySize)
    \/ \E payload \in Payloads : create_reservation(payload)
    \/ \E reservation_id \in IssuedIds : cancel_reservation(reservation_id)
    \/ \E date \in Dates, open \in BOOLEAN, note \in Notes : upsert_schedule_day(date, open, note)
    \/ \E date \in WindowDates, span \in WindowSpans : add_service_window(date, span[1], span[2])

Spec == Init /\ [][Next]_vars

\* the same requests against a store that starts without reservations
InitEmpty ==
    /\ schedule_days = <<>>
    /\ service_windows = <<>>
    /\ reservations = <<>>
    /\ resp = NoResponse
    /\ inflight = <<>>

EmptySpec == InitEmpty /\ [][Next]_vars

-----------------------------------------------------------------------------
(* Concurrent create_reservation requests.  FastAPI runs each "def" handler  *)
(* on its own worker thread with its own session; the handler takes no lock  *)
(* and calls no atomic primitive, so between its count (lines 294-300) and   *)
(* its commit (line 316) the other requests run.  Every statement reads the  *)
(* rows committed so far.                                                    *)

\* lines 286-303: day lookup, window test, count, capacity test
create_reservation_check_without_count(i) ==
    LET payload == inflight[i].payload
        day_id == FindDay(payload.date)
        outcome == IF DateUnavailable(day_id) THEN "Date is not available"
                   ELSE IF ~WithinWindow(DayWindows(day_id), payload.time)
                   THEN "Time is not within service hours"
                   ELSE "admit"
    IN
    /\ inflight[i].pc = "start"
    /\ inflight' =
         IF outcome = "admit"
         THEN [inflight EXCEPT ![i].pc = "insert"]
         ELSE [inflight EXCEPT ![i].pc = "done", ![i].code = AdmissionStatus(outcome)]
    /\ UNCHANGED <<store, resp>>

create_reservation_check(i) ==
    LET payload == inflight[i].payload
        outcome == Admission(payload)
    IN
    /\ inflight[i].pc = "start"
    /\ inflight' =
         IF outcome = "admit"
         THEN [inflight EXCEPT ![i].pc = "insert"]
         ELSE [inflight EXCEPT ![i].pc = "done", ![i].code = AdmissionStatus(outcome)]
    /\ UNCHANGED <<store, resp>>

\* lines 305-317: db.add(r); db.commit(); the response is 201
create_reservation_commit(i) ==
    /\ inflight[i].pc = "insert"
    /\ reservations' = Append(reservations, NewReservation(inflight[i].payload))
    /\ inflight' = [inflight EXCEPT ![i].pc = "done", ![i].code = 201]
    /\ UNCHANGED <<schedule_days, service_windows, resp>>

ConcNext ==
    \/ \E i \in DOMAIN inflight : create_reservation_check(i)
    \/ \E i \in DOMAIN inflight : create_reservation_commit(i)

\* the schedule after POST /schedule/window for Date1, 19:00-20:00, and no booking
OpenDayStore ==
    /\ schedule_days = <<[date |-> Date1, open |-> TRUE, note |-> None]>>
    /\ service_windows = <<[day_id |-> 1, start |-> Clock(19, 0), end |-> Clock(20, 0)]>>
    /\ reservations = <<>>
    /\ resp = NoResponse

Waiting(payload) == [pc |-> "start", payload |-> payload, code |-> 0]

ConcPayloads == [date : {Date1}, time : {Clock(19, 0), Clock(19, 30)}, partySize : PartySizes]

ConcInit ==
    /\ OpenDayStore
    /\ inflight \in [1..NumClients -> {Waiting(p) : p \in ConcPayloads}]

ConcSpec == ConcInit /\ [][ConcNext]_vars

\* capacity + BurstExtra simultaneous requests for one slot
BurstPayload == [date |-> Date1, time |-> Clock(19, 0), partySize |-> 2]

BurstInit ==
    /\ OpenDayStore
    /\ inflight = [i \in 1..(reservation_slot_capacity + BurstExtra) |-> Waiting(BurstPayload)]

BurstSpec == BurstInit /\ [][ConcNext]_vars

-----------------------------------------------------------------------------
(* What the claims are stated with: read off the tables, not off the handlers *)

ActiveStatuses == {"PENDING", "CONFIRMED"}

\* the number of active reservations of the pair (date, time) in the rows
ActiveAt(rows, date, time) ==
    Cardinality({i \in DOMAIN rows :
                    rows[i].date = date /\ rows[i].time = time /\ rows[i].status \in ActiveStatuses})

\* the (date, time) pairs the requests and the stored rows speak of
Pairs == {<<p.date, p.time>> : p \in Payloads}
            \cup {<<reservations[i].date, reservations[i].time>> : i \in DOMAIN reservations}

\* minutes after midnight of a two-digit "HH:MM"
Minutes(t) == 60 * (10 * t[1] + t[2]) + 10 * t[4] + t[5]

DayExists(date) == \E i \in DOMAIN schedule_days : schedule_days[i].date = date

DayIsOpen(date) == \E i \in DOMAIN schedule_days : schedule_days[i].date = date /\ schedule_days[i].open

\* the windows of the date, as pairs of minutes
WindowsOf(date) ==
    {<<Minutes(service_windows[k].start), Minutes(service_windows[k].end)>> :
        k \in {j \in DOMAIN service_windows :
                 /\ service_windows[j].day_id \in DOMAIN schedule_days
                 /\ schedule_days[service_windows[j].day_id].date = date}}

InSomeWindow(date, time) ==
    \E w \in WindowsOf(date) : w[1] <= Minutes(time) /\ Minutes(time) < w[2]

AllDone == \A i \in DOMAIN inflight : inflight[i].pc = "done"

Answered(code) == {i \in DOMAIN inflight : inflight[i].pc = "done" /\ inflight[i].code = code}

-----------------------------------------------------------------------------
(* C1, C2: concurrent admission *)

\* C1: under every interleaving of the count steps and the commit steps of
\* concurrent create_reservation requests, no (date, time) pair ever holds more
\* active reservations than the capacity.
C1_NeverOverCapacityConcurrent ==
    \A pair \in Pairs : ActiveAt(reservations, pair[1], pair[2]) <= reservation_slot_capacity

\* C2: when capacity + 5 requests for one free slot of an open day are fired at
\* once and all have been answered, exactly capacity of them got 201 and exactly
\* 5 got 409.
C2_BurstAdmitsExactlyCapacity ==
    AllDone =>
        /\ Cardinality(Answered(201)) = reservation_slot_capacity
        /\ Cardinality(Answered(409)) = BurstExtra

-----------------------------------------------------------------------------
(* C3 - C6: admission and cancellation, one request after another.  A step   *)
(* of a handler is told by the response it leaves; the unprimed tables are   *)
(* the store the handler found.                                              *)

CreateAnswered == resp'.op = "create_reservation"

CancelAnswered == resp'.op = "cancel_reservation"

NeverOverCapacity ==
    \A pair \in Pairs : ActiveAt(reservations, pair[1], pair[2]) <= reservation_slot_capacity

\* a create_reservation found its (date, time) with at least capacity active rows
FoundFull ==
    /\ CreateAnswered
    /\ ActiveAt(reservations, resp'.args.date, resp'.args.time) >= reservation_slot_capacity

\* C3 as stated: without overlap, a create_reservation whose (date, time) already
\* holds at least capacity active reservations is answered 409 "Slot is full" and
\* creates nothing, and the active count of no pair ever exceeds the capacity.
C3_FullSlotAnswered409 ==
    [][ /\ FoundFull => /\ resp'.code = 409
                        /\ resp'.detail = "Slot is full"
                        /\ reservations' = reservations
        /\ NeverOverCapacity' ]_vars

\* C3 amended: such a request is always rejected and creates nothing; it is
\* answered 409 "Slot is full" when its date is open and its time is inside a
\* window (otherwise an earlier check answers 400); the active count of no pair
\* ever exceeds the capacity.
C3_FullSlotRejected ==
    [][ /\ FoundFull => /\ resp'.code \in {400, 409}
                        /\ reservations' = reservations
                        /\ (DayIsOpen(resp'.args.date) /\ InSomeWindow(resp'.args.date, resp'.args.time))
                             => (resp'.code = 409 /\ resp'.detail = "Slot is full")
        /\ NeverOverCapacity' ]_vars

\* a request for a full slot of an open day, inside a window, has been answered 409
C3_Witness ==
    /\ resp.op = "create_reservation"
    /\ resp.code = 409
    /\ DayIsOpen(resp.args.date)
    /\ InSomeWindow(resp.args.date, resp.args.time)
    /\ ActiveAt(reservations, resp.args.date, resp.args.time) = reservation_slot_capacity

\* C4: create_reservation reports the first failing check, in the order date
\* (no ScheduleDay, or closed: 400 "Date is not available"), window (400 "Time is
\* not within service hours"), capacity (409 "Slot is full"), and admits (201)
\* when all three pass.
C4_FirstFailingCheckWins ==
    [][ CreateAnswered =>
          LET date == resp'.args.date
              time == resp'.args.time
              full == ActiveAt(reservations, date, time) >= reservation_slot_capacity
          IN  /\ ~DayIsOpen(date)
                   => (resp'.code = 400 /\ resp'.detail = "Date is not available")
              /\ (DayIsOpen(date) /\ ~InSomeWindow(date, time))
                   => (resp'.code = 400 /\ resp'.detail = "Time is not within service hours")
              /\ (DayIsOpen(date) /\ InSomeWindow(date, time) /\ full)
                   => (resp'.code = 409 /\ resp'.detail = "Slot is full")
              /\ (DayIsOpen(date) /\ InSomeWindow(date, time) /\ ~full)
                   => resp'.code = 201 ]_vars

\* a request on a closed date, outside every window, for a full slot, has been
\* answered "Date is not available"
C4_Witness ==
    /\ resp.op = "create_reservation"
    /\ resp.detail = "Date is not available"
    /\ DayExists(resp.args.date)
    /\ ~DayIsOpen(resp.args.date)
    /\ ~InSomeWindow(resp.args.date, resp.args.time)
    /\ ActiveAt(reservations, resp.args.date, resp.args.time) >= reservation_slot_capacity

\* C5: on an open date a create_reservation whose time is outside every window
\* of the day is answered 400 "Time is not within service hours" and creates
\* no reservation.
C5_OutsideServiceHours ==
    [][ (CreateAnswered /\ DayIsOpen(resp'.args.date)
            /\ ~InSomeWindow(resp'.args.date, resp'.args.time))
          => /\ resp'.code = 400
             /\ resp'.detail = "Time is not within service hours"
             /\ reservations' = reservations ]_vars

\* a request for the end of the only window of an open day has been refused
C5_Witness ==
    /\ resp.op = "create_reservation"
    /\ resp.code = 400
    /\ resp.detail = "Time is not within service hours"
    /\ DayIsOpen(resp.args.date)
    /\ WindowsOf(resp.args.date) # {}
    /\ \E w \in WindowsOf(resp.args.date) : Minutes(resp.args.time) = w[2]

\* C6: cancel_reservation of a PENDING or CONFIRMED reservation sets its status
\* to CANCELLED and changes nothing else; of a CANCELLED or REJECTED one it
\* answers 409 and leaves every stored reservation as it was.
C6_CancelOnlyActive ==
    [][ CancelAnswered =>
          \A i \in DOMAIN reservations :
              resp'.args = reservation_public_id(i) =>
                  /\ reservations[i].status \in {"PENDING", "CONFIRMED"}
                       => /\ resp'.code = 200
                          /\ reservations' = [reservations EXCEPT ![i].status = "CANCELLED"]
                  /\ reservations[i].status \in {"CANCELLED", "REJECTED"}
                       => /\ resp'.code = 409
                          /\ reservations' = reservations ]_vars

\* the cancellation of an already cancelled reservation has been answered 409
C6_Witness ==
    /\ resp.op = "cancel_reservation"
    /\ resp.code = 409
    /\ \E i \in DOMAIN reservations :
          resp.args = reservation_public_id(i) /\ reservations[i].status = "CANCELLED"

-----------------------------------------------------------------------------
(* C7 - C10 *)

AvailabilityAnswered == resp'.op = "get_availability"

\* C7: only PENDING and CONFIRMED rows count.  The cancellation of a PENDING
\* reservation takes one off the active count of its (date, time) and off no
\* other; a get_availability reports a slot "FULL" only when at least capacity
\* active rows stand at it, and a create_reservation is answered 409 only then;
\* a create_reservation for an open date and a time inside a window is admitted
\* whenever fewer than capacity active rows stand at its slot, however many
\* CANCELLED or REJECTED rows stand there.
C7_OnlyActiveCounts ==
    [][ /\ (CancelAnswered /\ resp'.code = 200)
             => \A i \in DOMAIN reservations :
                    (resp'.args = reservation_public_id(i) /\ reservations[i].status = "PENDING")
                      => \A pair \in Pairs :
                            ActiveAt(reservations', pair[1], pair[2])
                              = ActiveAt(reservations, pair[1], pair[2])
                                  - (IF pair = <<reservations[i].date, reservations[i].time>>
                                     THEN 1 ELSE 0)
        /\ AvailabilityAnswered
             => \A k \in DOMAIN resp'.body :
                    resp'.body[k].reason = "FULL"
                      => ActiveAt(reservations, resp'.args.date, resp'.body[k].time)
                             >= reservation_slot_capacity
        /\ CreateAnswered
             => /\ resp'.code = 409
                    => ActiveAt(reservations, resp'.args.date, resp'.args.time)
                           >= reservation_slot_capacity
                /\ (/\ DayIsOpen(resp'.args.date)
                    /\ InSomeWindow(resp'.args.date, resp'.args.time)
                    /\ ActiveAt(reservations, resp'.args.date, resp'.args.time)
                           < reservation_slot_capacity)
                    => resp'.code = 201 ]_vars

\* a slot was filled by two requests, the second booking was cancelled, and a
\* third request for the slot has been admitted
C7_Witness ==
    /\ resp.op = "create_reservation"
    /\ resp.code = 201
    /\ Len(reservations) = 3
    /\ resp.body[1].id = reservation_public_id(3)
    /\ \A i \in 1..3 : /\ reservations[i].date = resp.args.date
                       /\ reservations[i].time = resp.args.time
    /\ reservations[1].status = "PENDING"
    /\ reservations[2].status = "CANCELLED"
    /\ reservations[3].status = "PENDING"

\* the slot starts of a date: every window start plus a multiple of the step
\* that is still before the window's end
ExpectedSlotMinutes(date) ==
    {m \in 0..1439 : \E w \in WindowsOf(date) :
        w[1] <= m /\ m < w[2] /\ (m - w[1]) % step_minutes = 0}

\* C8: for an open date get_availability answers one entry per generated slot;
\* a slot is available exactly when fewer than capacity active reservations
\* stand at its (date, time), and its reason is "FULL" exactly when it is not
\* available and absent otherwise.
C8_AvailableIffBelowCapacity ==
    (resp.op = "get_availability" /\ DayIsOpen(resp.args.date)) =>
        /\ resp.code = 200
        /\ {Minutes(resp.body[k].time) : k \in DOMAIN resp.body} = ExpectedSlotMinutes(resp.args.date)
        /\ Len(resp.body) = Cardinality(ExpectedSlotMinutes(resp.args.date))
        /\ \A k \in DOMAIN resp.body :
              /\ resp.body[k].available
                   = (ActiveAt(reservations, resp.args.date, resp.body[k].time)
                          < reservation_slot_capacity)
              /\ resp.body[k].reason = (IF resp.body[k].available THEN None ELSE "FULL")

\* an answer that holds a FULL slot with exactly capacity active reservations
\* and an available slot with capacity - 1
C8_Witness ==
    /\ resp.op = "get_availability"
    /\ DayIsOpen(resp.args.date)
    /\ \E k \in DOMAIN resp.body :
          /\ ~resp.body[k].available
          /\ resp.body[k].reason = "FULL"
          /\ ActiveAt(reservations, resp.args.date, resp.body[k].time) = reservation_slot_capacity
    /\ \E k \in DOMAIN resp.body :
          /\ resp.body[k].available
          /\ ActiveAt(reservations, resp.args.date, resp.body[k].time) = reservation_slot_capacity - 1

\* C9: for a date without ScheduleDay, or whose ScheduleDay is closed,
\* get_availability answers 200 with an empty slot list.
C9_ClosedOrMissingDateHasNoSlots ==
    (resp.op = "get_availability" /\ ~DayIsOpen(resp.args.date)) =>
        /\ resp.code = 200
        /\ resp.body = <<>>

\* the answer for a closed day that has a window and an active reservation
C9_Witness ==
    /\ resp.op = "get_availability"
    /\ DayExists(resp.args.date)
    /\ ~DayIsOpen(resp.args.date)
    /\ WindowsOf(resp.args.date) # {}
    /\ \E i \in DOMAIN reservations :
          reservations[i].date = resp.args.date /\ reservations[i].status \in ActiveStatuses
    /\ resp.body = <<>>

\* C10: every create_reservation either appends exactly one row, PENDING and
\* with the date, time and party size of the request, or (400, 409) leaves the
\* reservations as they were; the rows that were stored are not changed.
C10_CreateAllOrNothing ==
    [][ CreateAnswered =>
          /\ \/ /\ resp'.code = 201
                /\ reservations' = Append(reservations,
                                          [date |-> resp'.args.date, time |-> resp'.args.time,
                                           party_size |-> resp'.args.partySize,
                                           status |-> "PENDING"])
             \/ /\ resp'.code \in {400, 409}
                /\ reservations' = reservations
          /\ UNCHANGED <<schedule_days, service_windows>> ]_vars

\* a reservation has been admitted next to two stored ones
C10_Witness ==
    /\ resp.op = "create_reservation"
    /\ resp.code = 201
    /\ Len(reservations) = 3
    /\ reservations[3].status = "PENDING"

-----------------------------------------------------------------------------
(* Requests that name a reservation: every handler but get_availability,     *)
(* with the identifiers a client may send, against a store that starts empty *)

LookupNext ==
    \/ \E payload \in Payloads : create_reservation(payload)
    \/ \E reservation_id \in ReservationIds : get_reservation(reservation_id)
    \/ \E reservation_id \in ReservationIds : cancel_reservation(reservation_id)
    \/ \E date \in Dates, open \in BOOLEAN, note \in Notes : upsert_schedule_day(date, open, note)
    \/ \E date \in WindowDates, span \in WindowSpans : add_service_window(date, span[1], span[2])

LookupSpec == InitEmpty /\ [][LookupNext]_vars

-----------------------------------------------------------------------------
(* C11: identifiers that name no reservation *)

LookupAnswered == resp'.op \in {"get_reservation", "cancel_reservation"}

WrongPrefix(id) == id.prefix # "resv_"

NonNumericSuffix(id) == id.prefix = "resv_" /\ \E k \in DOMAIN id.suffix : id.suffix[k] \notin 0..9

\* a well-formed identifier whose row is not stored
NoSuchRow(id) ==
    \E n \in 1..MaxReservations :
        id = [prefix |-> "resv_", suffix |-> Digits(n)] /\ n \notin DOMAIN reservations

\* C11: get_reservation and cancel_reservation answer 404 alike for an identifier
\* with the wrong prefix, for one with the resv_ prefix and a non-numeric suffix,
\* and for a well-formed one whose row does not exist, and none of the three
\* changes the store.
C11_UnknownIdIs404 ==
    [][ (LookupAnswered /\ (\/ WrongPrefix(resp'.args)
                            \/ NonNumericSuffix(resp'.args)
                            \/ NoSuchRow(resp'.args)))
          => (resp'.code = 404 /\ store' = store) ]_vars

-----------------------------------------------------------------------------
(* _generate_slots as a function of the windows of one day and the step     *)

\* windows a day may hold in the slot specification
MaxSlotWindows == 2

\* starts and ends of the windows: on and off the step grid, across an hour
SlotClocks == { Clock(19, 0), Clock(19, 15), Clock(19, 20), Clock(19, 45), Clock(20, 10) }

\* values of the parameter step_minutes
Steps == {15, 30}

SlotWindows == [day_id : {1}, start : SlotClocks, end : SlotClocks]

\* the rows of service_windows respect UniqueConstraint("day_id", "start", "end")
NoDuplicateWindow(ws) == \A j, k \in DOMAIN ws : ws[j] = ws[k] => j = k

SlotsInit ==
    /\ schedule_days = <<[date |-> Date1, open |-> TRUE, note |-> None]>>
    /\ service_windows \in {ws \in UNION {[1..n -> SlotWindows] : n \in 0..MaxSlotWindows} :
                              NoDuplicateWindow(ws)}
    /\ reservations = <<>>
    /\ resp = NoResponse
    /\ inflight = <<>>

\* slot_times = _generate_slots(day.windows, step)
generate_slots(step) ==
    /\ resp' = Response("_generate_slots", [windows |-> DayWindows(1), step |-> step],
                        200, "", _generate_slots(DayWindows(1), step))
    /\ UNCHANGED <<store, inflight>>

SlotsNext == \E step \in Steps : generate_slots(step)

SlotsSpec == SlotsInit /\ [][SlotsNext]_vars

-----------------------------------------------------------------------------
(* C12, C13, C16: the slots of the windows *)

SlotsAnswered == resp.op = "_generate_slots"

\* the window as the pair of its start and end in minutes
Span(w) == <<Minutes(w.start), Minutes(w.end)>>

\* ceil(a / b) for a >= 0, b > 0
Ceil(a, b) == (a + b - 1) \div b

\* the slot starts of one window: its start plus multiples of the step, before its end
SlotMinutesOf(w, step) ==
    {m \in Span(w)[1]..(Span(w)[2] - 1) : (m - Span(w)[1]) % step = 0}

\* C12: for a single window with start < end and step s, _generate_slots returns
\* exactly ceil((end - start) / s) slots, each at or after the start and before
\* the end.
C12_SingleWindowSlotCount ==
    (SlotsAnswered /\ Len(resp.args.windows) = 1
        /\ Span(resp.args.windows[1])[1] < Span(resp.args.windows[1])[2]) =>
        LET w == Span(resp.args.windows[1]) IN
        /\ Len(resp.body) = Ceil(w[2] - w[1], resp.args.step)
        /\ \A k \in DOMAIN resp.body :
              w[1] <= Minutes(resp.body[k]) /\ Minutes(resp.body[k]) < w[2]

\* a single window whose span is no multiple of the step, with more than one slot
C12_Witness ==
    /\ SlotsAnswered
    /\ Len(resp.args.windows) = 1
    /\ LET w == Span(resp.args.windows[1]) IN
          /\ w[1] < w[2]
          /\ (w[2] - w[1]) % resp.args.step # 0
          /\ Len(resp.body) > 1
          /\ Len(resp.body) * resp.args.step > w[2] - w[1]

\* C13: for any windows of one day, overlapping ones included, _generate_slots
\* returns the union of the slot sets of the windows, no time twice, in strictly
\* ascending time order.
C13_DeduplicatedSortedUnion ==
    SlotsAnswered =>
        /\ {Minutes(resp.body[k]) : k \in DOMAIN resp.body}
             = UNION {SlotMinutesOf(resp.args.windows[j], resp.args.step) :
                         j \in DOMAIN resp.args.windows}
        /\ \A j, k \in DOMAIN resp.body : j < k => Minutes(resp.body[j]) < Minutes(resp.body[k])

\* two overlapping windows that share a slot start, the later window listed first
C13_Witness ==
    /\ SlotsAnswered
    /\ Len(resp.args.windows) = 2
    /\ LET w1 == resp.args.windows[1]
           w2 == resp.args.windows[2]
       IN  /\ Span(w2)[1] < Span(w1)[1]
           /\ Span(w1)[1] < Span(w2)[2]
           /\ SlotMinutesOf(w1, resp.args.step) \cap SlotMinutesOf(w2, resp.args.step) # {}
           /\ SlotMinutesOf(w1, resp.args.step) \ SlotMinutesOf(w2, resp.args.step) # {}
           /\ SlotMinutesOf(w2, resp.args.step) \ SlotMinutesOf(w1, resp.args.step) # {}
           /\ Len(resp.body) = Cardinality(SlotMinutesOf(w1, resp.args.step)
                                             \cup SlotMinutesOf(w2, resp.args.step))

\* C16: _generate_slots returns no slot for zero windows; a window with
\* start >= end contributes none (every returned slot is a slot of a window with
\* start < end); a single window with start < end and a span shorter than the
\* step gives exactly its start.
C16_EmptyAndShortWindows ==
    SlotsAnswered =>
        LET ws == resp.args.windows
            step == resp.args.step
        IN
        /\ ws = <<>> => resp.body = <<>>
        /\ (\A j \in DOMAIN ws : Span(ws[j])[1] >= Span(ws[j])[2]) => resp.body = <<>>
        /\ \A k \in DOMAIN resp.body :
              \E j \in DOMAIN ws :
                  /\ Span(ws[j])[1] < Span(ws[j])[2]
                  /\ Span(ws[j])[1] <= Minutes(resp.body[k])
                  /\ Minutes(resp.body[k]) < Span(ws[j])[2]
        /\ (Len(ws) = 1 /\ Span(ws[1])[1] < Span(ws[1])[2]
                /\ Span(ws[1])[2] - Span(ws[1])[1] < step)
             => resp.body = <<ws[1].start>>

\* a window with start > end beside one shorter than the step: only the start
\* of the short one is returned
C16_Witness ==
    /\ SlotsAnswered
    /\ Len(resp.args.windows) = 2
    /\ Span(resp.args.windows[1])[1] > Span(resp.args.windows[1])[2]
    /\ Span(resp.args.windows[2])[1] < Span(resp.args.windows[2])[2]
    /\ Span(resp.args.windows[2])[2] - Span(resp.args.windows[2])[1] < resp.args.step
    /\ resp.body = <<resp.args.windows[2].start>>

-----------------------------------------------------------------------------
(* The evening of one open day with the single window 19:00-21:00 *)

ScenarioTimes == { Clock(19, 30), Clock(20, 0) }

ScenarioPayloads == [date : {Date1}, time : ScenarioTimes, partySize : PartySizes]

\* the store after POST /schedule/window for Date1, 19:00-21:00
ScenarioInit ==
    /\ schedule_days = <<[date |-> Date1, open |-> TRUE, note |-> None]>>
    /\ service_windows = <<[day_id |-> 1, start |-> Clock(19, 0), end |-> Clock(21, 0)]>>
    /\ reservations = <<>>
    /\ resp = NoResponse
    /\ inflight = <<>>

ScenarioNext ==
    \/ \E partySize \in PartySizes : get_availability(Date1, partySize)
    \/ \E payload \in ScenarioPayloads : create_reservation(payload)
    \/ \E reservation_id \in IssuedIds : cancel_reservation(reservation_id)

ScenarioSpec == ScenarioInit /\ [][ScenarioNext]_vars

-----------------------------------------------------------------------------
(* C14: the scenario of the full 19:30 slot *)

\* the stored reservations are exactly capacity PENDING ones at 19:30
FilledHalfPastSeven ==
    /\ Len(reservations) = reservation_slot_capacity
    /\ \A i \in DOMAIN reservations :
          /\ reservations[i].date = Date1
          /\ reservations[i].time = <<1, 9, 10, 3, 0>>
          /\ reservations[i].status = "PENDING"

SlotEntry(time, available) ==
    [time |-> time, available |-> available, reason |-> IF available THEN "None" ELSE "FULL"]

\* C14: on the open day with the single window 19:00-21:00 and step 30 the slots
\* are exactly 19:00, 19:30, 20:00, 20:30; once capacity (2) PENDING
\* reservations stand at 19:30, get_availability marks 19:30 unavailable and the
\* other three available, a further create_reservation at 19:30 is answered 409
\* and a create_reservation at 20:00 is answered 201.
C14_FullSlotScenario ==
    [][ /\ AvailabilityAnswered =>
              /\ Len(resp'.body) = 4
              /\ resp'.body[1].time = <<1, 9, 10, 0, 0>>
              /\ resp'.body[2].time = <<1, 9, 10, 3, 0>>
              /\ resp'.body[3].time = <<2, 0, 10, 0, 0>>
              /\ resp'.body[4].time = <<2, 0, 10, 3, 0>>
        /\ (FilledHalfPastSeven /\ AvailabilityAnswered) =>
              resp'.body = << SlotEntry(<<1, 9, 10, 0, 0>>, TRUE),
                              SlotEntry(<<1, 9, 10, 3, 0>>, FALSE),
                              SlotEntry(<<2, 0, 10, 0, 0>>, TRUE),
                              SlotEntry(<<2, 0, 10, 3, 0>>, TRUE) >>
        /\ (FilledHalfPastSeven /\ CreateAnswered /\ resp'.args.time = <<1, 9, 10, 3, 0>>) =>
              (resp'.code = 409 /\ reservations' = reservations)
        /\ (FilledHalfPastSeven /\ CreateAnswered /\ resp'.args.time = <<2, 0, 10, 0, 0>>) =>
              /\ resp'.code = 201
              /\ Len(reservations') = Len(reservations) + 1
              /\ reservations'[Len(reservations')].time = <<2, 0, 10, 0, 0>>
              /\ reservations'[Len(reservations')].status = "PENDING" ]_vars

\* with capacity PENDING reservations at 19:30 stored first, the booking at
\* 20:00 has just been admitted
C14_Witness ==
    /\ resp.op = "create_reservation"
    /\ resp.code = 201
    /\ resp.args.time = <<2, 0, 10, 0, 0>>
    /\ Len(reservations) = reservation_slot_capacity + 1
    /\ \A i \in 1..reservation_slot_capacity :
          reservations[i].time = <<1, 9, 10, 3, 0>> /\ reservations[i].status = "PENDING"
    /\ reservations[Len(reservations)].time = <<2, 0, 10, 0, 0>>
    /\ reservations[Len(reservations)].status = "PENDING"

-----------------------------------------------------------------------------
(* Service hours: two adjacent windows and times on and off the slot grid *)

HoursSpans == { <<Clock(19, 0), Clock(20, 0)>>, <<Clock(20, 0), Clock(21, 0)>> }

HoursTimes == { Clock(19, 0), Clock(19, 45), Clock(20, 0), Clock(21, 0) }

HoursPayloads == [date : {Date1}, time : HoursTimes, partySize : PartySizes]

HoursNext ==
    \/ \E span \in HoursSpans : add_service_window(Date1, span[1], span[2])
    \/ \E payload \in HoursPayloads : create_reservation(payload)
    \/ \E partySize \in PartySizes : get_availability(Date1, partySize)

HoursSpec == InitEmpty /\ [][HoursNext]_vars

-----------------------------------------------------------------------------
(* C15: the window check of create_reservation *)

\* the answer is not the one of the failed window check
PassedWindowCheck == resp'.detail # "Time is not within service hours"

\* C15: on an open date create_reservation passes the window check exactly when
\* start <= time < end holds for one of the day's windows: a time equal to a
\* window's start passes, a time equal to a window's end fails unless another
\* window contains it, and a time strictly inside a window passes although
\* get_availability, which lists only window starts plus multiples of the
\* step, never lists it.
C15_HalfOpenWindowCheck ==
    [][ /\ (CreateAnswered /\ DayIsOpen(resp'.args.date)) =>
              LET date == resp'.args.date
                  t == Minutes(resp'.args.time)
              IN
              /\ PassedWindowCheck <=> InSomeWindow(date, resp'.args.time)
              /\ (\E w \in WindowsOf(date) : w[1] < w[2] /\ t = w[1]) => PassedWindowCheck
              /\ (\E w \in WindowsOf(date) : t = w[2])
                    => (PassedWindowCheck <=> \E v \in WindowsOf(date) : v[1] <= t /\ t < v[2])
              /\ (\E w \in WindowsOf(date) : w[1] < t /\ t < w[2]) => PassedWindowCheck
              /\ ~PassedWindowCheck => (resp'.code = 400 /\ reservations' = reservations)
        /\ AvailabilityAnswered =>
              \A k \in DOMAIN resp'.body :
                  Minutes(resp'.body[k].time) \in ExpectedSlotMinutes(resp'.args.date) ]_vars

\* bookings stand at a time inside a window but off the slot grid and at a time
\* that ends one window and starts the other, and a request for the end of the
\* last window has just been answered 400
C15_Witness ==
    /\ resp.op = "create_reservation"
    /\ resp.code = 400
    /\ resp.detail = "Time is not within service hours"
    /\ DayIsOpen(resp.args.date)
    /\ \E w \in WindowsOf(resp.args.date) : Minutes(resp.args.time) = w[2]
    /\ \E i \in DOMAIN reservations :
          /\ reservations[i].date = resp.args.date
          /\ InSomeWindow(resp.args.date, reservations[i].time)
          /\ Minutes(reservations[i].time) \notin ExpectedSlotMinutes(resp.args.date)
    /\ \E i \in DOMAIN reservations :
          /\ reservations[i].date = resp.args.date
          /\ \E w, v \in WindowsOf(resp.args.date) :
                Minutes(reservations[i].time) = w[2] /\ Minutes(reservations[i].time) = v[1]

-----------------------------------------------------------------------------
(* C17: the statuses the program writes *)

\* C17: starting from an empty store, after any sequence of create_reservation,
\* cancel_reservation and schedule edits every stored reservation is PENDING or
\* CANCELLED, no row disappears, and the only change of a stored status is
\* PENDING -> CANCELLED.
C17_OnlyPendingAndCancelled ==
    [][ /\ \A i \in DOMAIN reservations' : reservations'[i].status \in {"PENDING", "CANCELLED"}
        /\ DOMAIN reservations \subseteq DOMAIN reservations'
        /\ \A i \in DOMAIN reservations :
              reservations'[i].status # reservations[i].status =>
                  (reservations[i].status = "PENDING" /\ reservations'[i].status = "CANCELLED") ]_vars

\* a cancellation has just been answered 200 and the store holds a CANCELLED
\* and a PENDING reservation
C17_Witness ==
    /\ resp.op = "cancel_reservation"
    /\ resp.code = 200
    /\ \E i \in DOMAIN reservations : reservations[i].status = "CANCELLED"
    /\ \E i \in DOMAIN reservations : reservations[i].status = "PENDING"

-----------------------------------------------------------------------------
(* Parties of different sizes on one open day *)

\* the least and the greatest partySize the schema accepts
SmallAndLargeParty == {1, 50}

PartyPayloads == [date : {Date1}, time : {Clock(19, 0), Clock(20, 0)}, partySize : SmallAndLargeParty]

PartyInit ==
    /\ OpenDayStore
    /\ inflight = <<>>

PartyNext ==
    \/ \E partySize \in SmallAndLargeParty : get_availability(Date1, partySize)
    \/ \E payload \in PartyPayloads : create_reservation(payload)
    \/ \E reservation_id \in IssuedIds : cancel_reservation(reservation_id)
    \/ \E open \in BOOLEAN, note \in Notes : upsert_schedule_day(Date1, open, note)

PartySpec == PartyInit /\ [][PartyNext]_vars

-----------------------------------------------------------------------------
(* C18: party size and capacity.  The response of the state a step starts in *)
(* was computed from the store of that state, so a step of the same handler  *)
(* is a second call on the same store.                                       *)

\* C18: two get_availability calls on the same store and date that differ at
\* most in partySize return the same slots; a create_reservation that repeats a
\* rejected request with another partySize on the same store gets the same
\* answer; a request is admitted exactly when its date is open, its time in a
\* window and fewer than capacity active reservations stand at its slot, and an
\* admitted reservation raises the active count of its slot by exactly one.
C18_PartySizeIrrelevant ==
    [][ /\ (resp.op = "get_availability" /\ AvailabilityAnswered
                /\ resp'.args.date = resp.args.date)
              => resp'.body = resp.body
        /\ (resp.op = "create_reservation" /\ resp.code # 201 /\ CreateAnswered
                /\ resp'.args.date = resp.args.date /\ resp'.args.time = resp.args.time)
              => (resp'.code = resp.code /\ resp'.detail = resp.detail)
        /\ CreateAnswered =>
              LET date == resp'.args.date
                  time == resp'.args.time
              IN
              /\ (resp'.code = 201) <=> /\ DayIsOpen(date)
                                        /\ InSomeWindow(date, time)
                                        /\ ActiveAt(reservations, date, time) < reservation_slot_capacity
              /\ (resp'.code = 201) =>
                    ActiveAt(reservations', date, time) = ActiveAt(reservations, date, time) + 1 ]_vars

\* a party of 1 has just been refused a slot filled by capacity reservations,
\* one of them for a party of 50
C18_Witness ==
    /\ resp.op = "create_reservation"
    /\ resp.code = 409
    /\ resp.args.partySize = 1
    /\ ActiveAt(reservations, resp.args.date, resp.args.time) = reservation_slot_capacity
    /\ \E i \in DOMAIN reservations :
          /\ reservations[i].date = resp.args.date
          /\ reservations[i].time = resp.args.time
          /\ reservations[i].status = "PENDING"
          /\ reservations[i].party_size = 50

-----------------------------------------------------------------------------
(* C19: schedule edits and stored reservations *)

ScheduleEdited == resp'.op \in {"upsert_schedule_day", "add_service_window"}

\* the row the identifier of the answered request names, 0 when it names none
NamedRow(id) ==
    IF \E n \in DOMAIN reservations : id = [prefix |-> "resv_", suffix |-> Digits(n)]
    THEN CHOOSE n \in DOMAIN reservations : id = [prefix |-> "resv_", suffix |-> Digits(n)]
    ELSE 0

DayIsClosed(date) == DayExists(date) /\ ~DayIsOpen(date)

\* C19: upsert_schedule_day, also when it closes a day that has active
\* reservations, and add_service_window leave the reservations table as it is;
\* whatever the state of its date, a stored reservation is returned by
\* get_reservation with its stored status, and cancel_reservation moves it to
\* CANCELLED when it is PENDING or CONFIRMED.
C19_ScheduleEditsKeepReservations ==
    [][ /\ ScheduleEdited => reservations' = reservations
        /\ (resp'.op = "get_reservation" /\ NamedRow(resp'.args) # 0) =>
              LET n == NamedRow(resp'.args) IN
              /\ resp'.code = 200
              /\ resp'.body[1].id = resp'.args
              /\ resp'.body[1].status = reservations[n].status
              /\ resp'.body[1].date = reservations[n].date
              /\ resp'.body[1].time = reservations[n].time
        /\ (CancelAnswered /\ NamedRow(resp'.args) # 0) =>
              LET n == NamedRow(resp'.args) IN
              reservations[n].status \in ActiveStatuses =>
                  /\ resp'.code = 200
                  /\ reservations' = [reservations EXCEPT ![n].status = "CANCELLED"] ]_vars

\* on a closed date that holds two reservations, one has just been cancelled
\* and the other is still PENDING
C19_Witness ==
    /\ resp.op = "cancel_reservation"
    /\ resp.code = 200
    /\ DayIsClosed(resp.body[1].date)
    /\ \E n \in DOMAIN reservations :
          /\ resp.args = [prefix |-> "resv_", suffix |-> Digits(n)]
          /\ reservations[n].status = "CANCELLED"
          /\ \E m \in DOMAIN reservations :
                /\ m # n
                /\ reservations[m].date = reservations[n].date
                /\ reservations[m].status = "PENDING"

-----------------------------------------------------------------------------
(* Clients that ask for the availability of a slot and then book it.  Each   *)
(* request is a separate HTTP call on its own session: between a client's    *)
(* GET /availability and its POST /reservations the requests of the other    *)
(* clients run.                                                              *)

\* what the client read for the slot of its payload in the answer
SeenAvailable(slots, time) ==
    \E k \in DOMAIN slots : slots[k].time = time /\ slots[k].available

\* GET /availability for the date of the client's payload
get_availability_of(i) ==
    LET payload == inflight[i].payload IN
    /\ inflight[i].pc = "browse"
    /\ resp' = Response("get_availability", [date |-> payload.date, partySize |-> payload.partySize],
                        200, "", AvailabilitySlots(payload.date))
    /\ inflight' = [inflight EXCEPT ![i].pc = "start",
                                    ![i].seen = SeenAvailable(resp'.body, payload.time)]
    /\ UNCHANGED store

Browsing(payload) == [pc |-> "browse", payload |-> payload, code |-> 0, seen |-> FALSE]

StaleInit ==
    /\ OpenDayStore
    /\ inflight \in [1..NumClients -> {Browsing(p) : p \in ConcPayloads}]

StaleNext ==
    \/ \E i \in DOMAIN inflight : get_availability_of(i)
    \/ \E i \in DOMAIN inflight : create_reservation_check(i)
    \/ \E i \in DOMAIN inflight : create_reservation_commit(i)

StaleSpec == StaleInit /\ [][StaleNext]_vars

-----------------------------------------------------------------------------
(* C20: a stale availability answer *)

\* the request of client i is answered in this step without an insert
RejectedNow(i) == inflight[i].pc = "start" /\ inflight'[i].pc = "done"

\* the request of client i passes its checks in this step
AdmittedNow(i) == inflight[i].pc = "start" /\ inflight'[i].pc = "insert"

\* C20: whatever get_availability told the client before, create_reservation
\* counts again: it is answered 409 only when at least capacity active
\* reservations stand at its slot at that moment, passes only when fewer do,
\* and a rejected request creates nothing, now or later (the stored rows are
\* those of the requests answered 201).
C20_AdmissionRevalidates ==
    [][ /\ \A i \in DOMAIN inflight :
              LET date == inflight[i].payload.date
                  time == inflight[i].payload.time
              IN
              /\ RejectedNow(i) =>
                    /\ reservations' = reservations
                    /\ inflight'[i].code = 409
                    /\ ActiveAt(reservations, date, time) >= reservation_slot_capacity
              /\ AdmittedNow(i) => ActiveAt(reservations, date, time) < reservation_slot_capacity
              /\ inflight[i].pc = "done" => inflight'[i] = inflight[i]
        /\ Len(reservations') = Cardinality({i \in DOMAIN inflight' : inflight'[i].code = 201}) ]_vars

\* a client was told its slot is available and its request got 409, the slot
\* having been filled by the others in between
C20_Witness ==
    \E i \in DOMAIN inflight :
        /\ inflight[i].seen
        /\ inflight[i].pc = "done"
        /\ inflight[i].code = 409
        /\ ActiveAt(reservations, inflight[i].payload.date, inflight[i].payload.time)
             >= reservation_slot_capacity

-----------------------------------------------------------------------------
(* GET /schedule and the specification of all six handlers *)

\* the dates of the model in the order of their strings
DateOrder == <<Date1, Date2>>

\* Python's str <= str on the dates of the model
DateLe(a, b) ==
    \E j, k \in DOMAIN DateOrder : DateOrder[j] = a /\ DateOrder[k] = b /\ j <= k

\* "if from_: ... ScheduleDay.date >= from_" and "if to: ... ScheduleDay.date <= to"
InScheduleRange(date, from_, to) ==
    /\ from_ # None => DateLe(from_, date)
    /\ to # None => DateLe(date, to)

ScheduleDaySchema(day_id) ==
    [date |-> schedule_days[day_id].date,
     open |-> schedule_days[day_id].open,
     note |-> schedule_days[day_id].note,
     serviceWindows |-> [k \in DOMAIN DayWindows(day_id) |->
                            [start |-> DayWindows(day_id)[k].start, end |-> DayWindows(day_id)[k].end]]]

\* the selected days, order_by(ScheduleDay.date.asc()), from the k-th date on
RECURSIVE ScheduleDaysFrom(_, _, _)
ScheduleDaysFrom(k, from_, to) ==
    IF k > Len(DateOrder) THEN <<>>
    ELSE (IF FindDay(DateOrder[k]) # 0 /\ InScheduleRange(DateOrder[k], from_, to)
          THEN <<ScheduleDaySchema(FindDay(DateOrder[k]))>>
          ELSE <<>>) \o ScheduleDaysFrom(k + 1, from_, to)

\* GET /schedule
get_schedule_prunes(from_, to) ==
    /\ resp' = Response("get_schedule", [from_ |-> from_, to |-> to], 200, "",
                        ScheduleDaysFrom(1, from_, to))
    /\ schedule_days' = SelectSeq(schedule_days, LAMBDA d : InScheduleRange(d.date, from_, to))
    /\ UNCHANGED <<service_windows, reservations, inflight>>

get_schedule(from_, to) ==
    /\ resp' = Response("get_schedule", [from_ |-> from_, to |-> to], 200, "",
                        ScheduleDaysFrom(1, from_, to))
    /\ UNCHANGED <<store, inflight>>

AllNext ==
    \/ \E date \in Dates, partySize \in PartySizes : get_availability(date, partySize)
    \/ \E from_ \in {None, Date2}, to \in {None, Date1} : get_schedule(from_, to)
    \/ \E reservation_id \in ReservationIds : get_reservation(reservation_id)
    \/ \E payload \in Payloads : create_reservation(payload)
    \/ \E reservation_id \in IssuedIds : cancel_reservation(reservation_id)
    \/ \E date \in Dates, open \in BOOLEAN, note \in Notes : upsert_schedule_day(date, open, note)
    \/ \E date \in WindowDates, span \in WindowSpans : add_service_window(date, span[1], span[2])

AllSpec == InitEmpty /\ [][AllNext]_vars

-----------------------------------------------------------------------------
(* C21: the reading handlers *)

ReadAnswered == resp'.op \in {"get_availability", "get_schedule", "get_reservation"}

\* C21: get_availability, get_schedule and get_reservation, whatever their
\* arguments and their answer, leave the schedule days, the service windows
\* and the reservations unchanged.
C21_ReadsChangeNothing ==
    [][ ReadAnswered =>
          /\ schedule_days' = schedule_days
          /\ service_windows' = service_windows
          /\ reservations' = reservations ]_vars

\* GET /schedule has just listed a day with a window while a reservation is stored
C21_Witness ==
    /\ resp.op = "get_schedule"
    /\ resp.body # <<>>
    /\ resp.body[1].serviceWindows # <<>>
    /\ reservations # <<>>
    /\ schedule_days # <<>>

-----------------------------------------------------------------------------
(* Concurrent schedule edits.  upsert_schedule_day and add_service_window    *)
(* select the day and write in separate statements, each request on its own  *)
(* session; the unique constraints of the tables are checked by the database *)
(* when a row is inserted.                                                   *)

\* administrators' requests in flight at once
NumEditors == 3

\* ScheduleDay.date is unique=True: an INSERT of a stored date raises IntegrityError
DateTaken_unenforced(date) == FALSE

DateTaken(date) == \E k \in DOMAIN schedule_days : schedule_days[k].date = date

\* the select of the day, first statement of both handlers
schedule_select_day(i) ==
    /\ inflight[i].pc = "start"
    /\ inflight' = [inflight EXCEPT ![i].pc = "day", ![i].found = FindDay(inflight[i].date)]
    /\ UNCHANGED <<store, resp>>

\* upsert_schedule_day lines 299-307: insert the day or update the one found
upsert_schedule_day_commit(i) ==
    LET r == inflight[i] IN
    /\ r.op = "upsert_schedule_day"
    /\ r.pc = "day"
    /\ IF r.found = 0
       THEN IF DateTaken(r.date)
            THEN /\ inflight' = [inflight EXCEPT ![i].pc = "done", ![i].code = 500]
                 /\ UNCHANGED schedule_days
            ELSE /\ schedule_days' = Append(schedule_days,
                                            [date |-> r.date, open |-> r.open, note |-> r.note])
                 /\ inflight' = [inflight EXCEPT ![i].pc = "done", ![i].code = 201]
       ELSE /\ schedule_days' = [schedule_days EXCEPT ![r.found].open = r.open,
                                                      ![r.found].note = r.note]
            /\ inflight' = [inflight EXCEPT ![i].pc = "done", ![i].code = 201]
    /\ UNCHANGED <<service_windows, reservations, resp>>

\* add_service_window lines 314-318: create the day, open, when none was found
add_service_window_day(i) ==
    LET r == inflight[i] IN
    /\ r.op = "add_service_window"
    /\ r.pc = "day"
    /\ IF r.found # 0
       THEN /\ inflight' = [inflight EXCEPT ![i].pc = "window"]
            /\ UNCHANGED schedule_days
       ELSE IF DateTaken(r.date)
       THEN /\ inflight' = [inflight EXCEPT ![i].pc = "done", ![i].code = 500]
            /\ UNCHANGED schedule_days
       ELSE /\ schedule_days' = Append(schedule_days,
                                       [date |-> r.date, open |-> TRUE, note |-> None])
            /\ inflight' = [inflight EXCEPT ![i].pc = "window", ![i].found = Len(schedule_days')]
    /\ UNCHANGED <<service_windows, reservations, resp>>

\* add_service_window lines 320-323: insert the window
add_service_window_commit(i) ==
    LET r == inflight[i] IN
    /\ r.op = "add_service_window"
    /\ r.pc = "window"
    /\ IF WindowExists(r.found, r.start, r.end)
       THEN /\ inflight' = [inflight EXCEPT ![i].pc = "done", ![i].code = 500]
            /\ UNCHANGED service_windows
       ELSE /\ service_windows' = Append(service_windows,
                                         [day_id |-> r.found, start |-> r.start, end |-> r.end])
            /\ inflight' = [inflight EXCEPT ![i].pc = "done", ![i].code = 201]
    /\ UNCHANGED <<schedule_days, reservations, resp>>

EditNext ==
    \/ \E i \in DOMAIN inflight : schedule_select_day(i)
    \/ \E i \in DOMAIN inflight : upsert_schedule_day_commit(i)
    \/ \E i \in DOMAIN inflight : add_service_window_day(i)
    \/ \E i \in DOMAIN inflight : add_service_window_commit(i)

EditRequest(op, date, open, start, end) ==
    [pc |-> "start", op |-> op, date |-> date, open |-> open, note |-> None,
     start |-> start, end |-> end, found |-> 0, code |-> 0]

EditRequests ==
    {EditRequest("upsert_schedule_day", Date1, open, <<>>, <<>>) : open \in BOOLEAN}
        \cup {EditRequest("add_service_window", Date1, TRUE, Clock(19, 0), end) :
                 end \in {Clock(20, 0), Clock(21, 0)}}

EditInit ==
    /\ schedule_days = <<>>
    /\ service_windows = <<>>
    /\ reservations = <<>>
    /\ resp = NoResponse
    /\ inflight \in [1..NumEditors -> EditRequests]

EditSpec == EditInit /\ [][EditNext]_vars

-----------------------------------------------------------------------------
(* C22: one day per date, one window per (day, start, end) *)

OneDayPerDate ==
    \A j, k \in DOMAIN schedule_days : schedule_days[j].date = schedule_days[k].date => j = k

OneWindowPerSpan ==
    \A j, k \in DOMAIN service_windows :
        (/\ service_windows[j].day_id = service_windows[k].day_id
         /\ service_windows[j].start = service_windows[k].start
         /\ service_windows[j].end = service_windows[k].end) => j = k

\* C22: under every interleaving of the statements of upsert_schedule_day and
\* add_service_window requests there is at most one ScheduleDay per date and at
\* most one window per (day, start, end), and the request whose insert would
\* make a duplicate fails without adding a row.
C22_NoDuplicateDayOrWindow ==
    [][ /\ OneDayPerDate'
        /\ OneWindowPerSpan'
        /\ \A i \in DOMAIN inflight :
              (inflight[i].code # 500 /\ inflight'[i].code = 500) => store' = store ]_vars

\* all requests are answered; two of them had found no day for the date and one
\* of these failed on its insert, and a repeated window was refused as well
C22_Witness ==
    /\ AllDone
    /\ Len(schedule_days) = 1
    /\ \E i, j \in DOMAIN inflight :
          /\ i # j
          /\ inflight[i].op = "upsert_schedule_day"
          /\ inflight[i].found = 0
          /\ inflight[i].code = 500
          /\ inflight[j].code = 201
    /\ \E i, j \in DOMAIN inflight :
          /\ i # j
          /\ inflight[i].op = "add_service_window"
          /\ inflight[j].op = "add_service_window"
          /\ inflight[i].end = inflight[j].end
          /\ inflight[i].code = 201
          /\ inflight[j].code = 500

-----------------------------------------------------------------------------
(* Windows as the administrator types them: POST /schedule/window takes      *)
(* start and end as plain strings, so "9:00" is stored as it is sent.        *)

\* "9:00" and "10:00"
NineUnpadded == <<9, COLON, 0, 0>>

TypedSpans == { <<NineUnpadded, Clock(10, 0)>>, <<Clock(19, 0), Clock(20, 0)>> }

TypedPayloads == [date : {Date1}, time : {Clock(9, 0), Clock(19, 0)}, partySize : PartySizes]

TypedNext ==
    \/ \E span \in TypedSpans : add_service_window(Date1, span[1], span[2])
    \/ \E partySize \in PartySizes : get_availability(Date1, partySize)
    \/ \E payload \in TypedPayloads : create_reservation(payload)
    \/ \E reservation_id \in IssuedIds : cancel_reservation(reservation_id)

TypedSpec == InitEmpty /\ [][TypedNext]_vars

-----------------------------------------------------------------------------
(* C23: availability and admission on the same store.  The answer of         *)
(* get_availability in the state a step starts in was computed from the      *)
(* store of that state, so a create_reservation step is the request          *)
(* "executed alone in that same state".                                      *)

\* C23: when get_availability has listed the time t as a slot of the date, a
\* create_reservation for (date, t) on the same store is admitted (201) exactly
\* when the slot was reported available, and rejected with 409 exactly when it
\* was reported FULL.
C23_AvailabilityAgreesWithAdmission ==
    [][ (resp.op = "get_availability" /\ CreateAnswered /\ resp'.args.date = resp.args.date) =>
          \A k \in DOMAIN resp.body :
              resp.body[k].time = resp'.args.time =>
                  /\ resp.body[k].available <=> resp'.code = 201
                  /\ (resp.body[k].reason = "FULL") <=> resp'.code = 409 ]_vars

-----------------------------------------------------------------------------
(* C24: CANCELLED is final and the active counts move one at a time *)

\* the change of the active count of the pair in this step
ActiveChange(pair) ==
    ActiveAt(reservations', pair[1], pair[2]) - ActiveAt(reservations, pair[1], pair[2])

\* C24: a CANCELLED reservation keeps its status under every operation; in one
\* operation the active count of a (date, time) pair rises by one only through
\* an admitted create_reservation for that pair, falls by one only through a
\* successful cancel_reservation of a reservation at that pair, and changes in
\* no other way, so at most one pair changes and by at most one.
C24_CancelledFinalCountsStepwise ==
    [][ /\ \A i \in DOMAIN reservations :
              reservations[i].status = "CANCELLED" =>
                  (i \in DOMAIN reservations' /\ reservations'[i].status = "CANCELLED")
        /\ LET changed == IF reservations' = reservations THEN {}
                          ELSE {pair \in Pairs : ActiveChange(pair) # 0}
           IN
           /\ Cardinality(changed) <= 1
           /\ \A pair \in changed :
                 IF ActiveChange(pair) = 1
                 THEN /\ CreateAnswered
                      /\ resp'.code = 201
                      /\ <<resp'.args.date, resp'.args.time>> = pair
                 ELSE /\ ActiveChange(pair) = -1
                      /\ CancelAnswered
                      /\ resp'.code = 200
                      /\ <<resp'.body[1].date, resp'.body[1].time>> = pair
                      /\ NamedRow(resp'.args) # 0
                      /\ <<reservations[NamedRow(resp'.args)].date,
                           reservations[NamedRow(resp'.args)].time>> = pair ]_vars

\* a second cancellation of a CANCELLED reservation has just been refused while
\* another reservation of the same slot is still active
C24_Witness ==
    /\ resp.op = "cancel_reservation"
    /\ resp.code = 409
    /\ \E n \in DOMAIN reservations :
          /\ resp.args = [prefix |-> "resv_", suffix |-> Digits(n)]
          /\ reservations[n].status = "CANCELLED"
          /\ ActiveAt(reservations, reservations[n].date, reservations[n].time) >= 1

-----------------------------------------------------------------------------
(* Closing and reopening a day.  A client keeps one answer of                *)
(* GET /availability, together with the windows and reservations it was      *)
(* computed from, to compare later answers with.                             *)

\* GET /availability whose non-empty answer is kept
get_availability_kept(date, partySize) ==
    /\ inflight = <<>>
    /\ AvailabilitySlots(date) # <<>>
    /\ resp' = Response("get_availability", [date |-> date, partySize |-> partySize],
                        200, "", AvailabilitySlots(date))
    /\ inflight' = <<[date |-> date, body |-> AvailabilitySlots(date),
                      windows |-> service_windows, reservations |-> reservations]>>
    /\ UNCHANGED store

ReopenPayloads == [date : {Date1}, time : {Clock(19, 0)}, partySize : PartySizes]

ReopenNext ==
    \/ \E partySize \in PartySizes : get_availability_kept(Date1, partySize)
    \/ \E partySize \in PartySizes : get_availability(Date1, partySize)
    \/ \E payload \in ReopenPayloads : create_reservation(payload)
    \/ \E open \in BOOLEAN, note \in {None, "private event"} : upsert_schedule_day(Date1, open, note)
    \/ \E span \in HoursSpans : add_service_window(Date1, span[1], span[2])

ReopenSpec == InitEmpty /\ [][ReopenNext]_vars

-----------------------------------------------------------------------------
(* C25: what the schedule edits change *)

\* the row of the date in schedule_days, 0 when there is none
DayRow(date) ==
    IF DayExists(date)
    THEN CHOOSE k \in DOMAIN schedule_days : schedule_days[k].date = date
    ELSE 0

\* C25: upsert_schedule_day on an existing date sets the open flag and the note
\* of that day and changes nothing else, its windows included, so that on the
\* reopened day get_availability answers with the slot list it gave before
\* the close as long as windows and reservations are those of that answer;
\* add_service_window on a date without ScheduleDay creates the day open, and
\* on an existing day, closed or open, it leaves the day as it is.
C25_ScheduleEditFrame ==
    [][ /\ (resp'.op = "upsert_schedule_day" /\ DayExists(resp'.args.date)) =>
              LET k == DayRow(resp'.args.date) IN
              /\ schedule_days' = [schedule_days EXCEPT ![k] =
                                     [date |-> schedule_days[k].date,
                                      open |-> resp'.args.open,
                                      note |-> resp'.args.note]]
              /\ service_windows' = service_windows
              /\ reservations' = reservations
        /\ (resp'.op = "add_service_window" /\ ~DayExists(resp'.args.date)) =>
              /\ Len(schedule_days') = Len(schedule_days) + 1
              /\ \A k \in DOMAIN schedule_days : schedule_days'[k] = schedule_days[k]
              /\ schedule_days'[Len(schedule_days')].date = resp'.args.date
              /\ schedule_days'[Len(schedule_days')].open
        /\ (resp'.op = "add_service_window" /\ DayExists(resp'.args.date)) =>
              /\ schedule_days' = schedule_days
              /\ resp'.code = 201 =>
                    service_windows' = Append(service_windows,
                                              [day_id |-> DayRow(resp'.args.date),
                                               start |-> resp'.args.start,
                                               end |-> resp'.args.end])
        /\ (/\ AvailabilityAnswered
            /\ inflight # <<>>
            /\ inflight' = inflight
            /\ resp'.args.date = inflight[1].date
            /\ DayIsOpen(resp'.args.date)
            /\ service_windows = inflight[1].windows
            /\ reservations = inflight[1].reservations) =>
              resp'.body = inflight[1].body ]_vars

\* after an answer with slots was kept, the day was closed and a window has
\* just been added to it: the day is still closed
C25_Witness ==
    /\ inflight # <<>>
    /\ inflight[1].body # <<>>
    /\ resp.op = "add_service_window"
    /\ resp.code = 201
    /\ DayExists(resp.args.date)
    /\ ~DayIsOpen(resp.args.date)
    /\ resp.args.date = inflight[1].date
    /\ Len(service_windows) = Len(inflight[1].windows) + 1

====
